---- MODULE Spec2Model ----
(***************************************************************************)
(* LndRpcChainBridge (chain_bridge.go): the memoized GetBlockHeader         *)
(* capability flag, VerifyBlock, and GetBlockTimestamp with its LRU         *)
(* timestamp cache, called by concurrent goroutines against an lnd backend  *)
(* whose RPCs may fail.                                                     *)
(*                                                                          *)
(* Each goroutine p runs one bridge call at a time; pc[p] is its position   *)
(* in the code.  Every backend RPC and every access to the shared flag or   *)
(* to the cache is one step, so calls of different goroutines interleave    *)
(* between them.                                                            *)
(*                                                                          *)
(* RegisterConfirmationsNtfn with its cancellable scope, PublishTransaction *)
(* and EstimateFee, and LndMsgTransportClient.SendMessage share no state    *)
(* with those calls; each has its own specification.                        *)
(***************************************************************************)
EXTENDS Integers, Sequences, FiniteSets, TLC

\* ------------------------------------------------------------------ bounds

\* Number of goroutines calling into one bridge instance.
NumProcs == 2

\* Total number of bridge calls started in one behaviour.
MaxCalls == 2

\* Largest block height a caller asks about (0 is the "unset" height).
MaxHeight == 2

\* Capacity of the timestamp cache in the model (the program's capacity is
\* maxNumBlocksInCache; the eviction logic is the same at any capacity).
CacheCapacity == 1

\* Number of chain reorganisations the backend goes through.
MaxReorgs == 1

\* Number of times the Cancel handle of one registration is invoked.
MaxCancels == 2

Procs == 1..NumProcs

Heights == 0..MaxHeight

\* ------------------------------------------------------------- data types

\* time.Time.Unix() is an int64.  It is kept as the pair of its upper and
\* lower 32-bit halves, so that the conversions of line 249 and 252 act on
\* the real widths.
Int64(hi, lo) == [hi |-> hi, lo |-> lo]

\* uint32(x) of an int64: the low 32 bits.
Uint32OfInt64(x) == x.lo

\* int64(u) of a uint32: zero-extension.
Int64OfUint32(u) == Int64(0, u)

\* The block headers of the model: a timestamp and a nonce.
Headers ==
    { [ts |-> Int64(0, 5), nonce |-> 1],
      [ts |-> Int64(1, 7), nonce |-> 2],
      [ts |-> Int64(0, 9), nonce |-> 3] }

\* wire.BlockHeader.BlockHash(): a collision-free digest of the header.
BlockHash(hd) == 100 + (10 * hd.nonce) + ((hd.ts.lo + hd.ts.hi) % 10)

Hashes == { BlockHash(hd) : hd \in Headers }

\* The header a hash belongs to (what the backend returns for a known hash).
HeaderOf(hash) == CHOOSE hd \in Headers : BlockHash(hd) = hash

NoHash == 0

\* verrpc.Version{AppMajor, AppMinor, AppPatch}
Version(major, minor, patch) == [AppMajor |-> major, AppMinor |-> minor, AppPatch |-> patch]

\* l.lnd.Version is a pointer: NoVersion is the nil pointer, the connection
\* handle holding no version information.
NoVersion == [AppMajor |-> -1, AppMinor |-> -1, AppPatch |-> -1]

\* The versions the connected lnd may report.
Versions == { Version(0, 16, 3), Version(0, 17, 0), Version(0, 17, 1), Version(0, 18, 0) }

\* getBlockHeaderMinimalVersion
getBlockHeaderMinimalVersion == Version(0, 17, 1)

VARIABLES
    version,      \* l.lnd.Version
    flagWrites,   \* l.getBlockHeaderSupported: the stores made to it, in order
    ptrIdx,       \* per goroutine: the newest store to the flag it has observed
    valSeen,      \* per goroutine: the stores whose pointed-to bool it has observed
    cacheSync,    \* what the cache's mutex has released: [idx, vals]
    cache,        \* l.blockTimestampCache, most recently used first
    bestChain,    \* backend: hash of the best chain's block at each height
    known,        \* backend: hashes of the blocks it can serve
    reorgs,       \* backend: reorganisations so far
    pc,           \* per goroutine: position in the code
    op,           \* per goroutine: the bridge call it is in
    hdr,          \* per goroutine: VerifyBlock's header argument
    height,       \* per goroutine: the height argument
    hash,         \* per goroutine: local `hash`
    header,       \* per goroutine: local `header` (GetBlockTimestamp)
    sup,          \* per goroutine: what GetBlockHeaderSupported returned
    computed,     \* per goroutine: local getBlockHeaderSupported (line 157)
    calls,        \* per goroutine: backend RPCs made by the current call
    capCalls,     \* per goroutine: GetBlockHeaderSupported invocations in the current call
    cacheOps,     \* per goroutine: cache operations made by the current call
    result,       \* per goroutine: what the last call returned
    compares,     \* per goroutine: version comparisons performed so far
    capReturns,   \* per goroutine: returns of GetBlockHeaderSupported so far
    started,      \* bridge calls started so far
    crashed,      \* the process died of a panic
    uses,         \* the heights the cache was used for, most recent first
    regs,         \* per registration: RegisterConfirmationsNtfn's scope, streams and result
    sendLog,      \* the SendMessage calls made, with what each passed on and returned
    walletLog     \* the PublishTransaction and EstimateFee calls made

\* The state of the chain bridge and of its backend's chain.
bridgeVars == << version, flagWrites, ptrIdx, valSeen, cacheSync, cache, bestChain, known,
                 reorgs, pc, op, hdr, height, hash, header, sup, computed, calls, capCalls,
                 cacheOps, result, compares, capReturns, started, crashed, uses >>

vars == << bridgeVars, regs, sendLog, walletLog >>

\* ------------------------------------------------------------ result values

\* What a bridge call returned.  kind: "none" (nothing returned yet), "ok"
\* (nil error), "backend" (a wrapped backend error; rpc names the failed
\* call), "mismatch" (the error of line 186), "ts" (GetBlockTimestamp's
\* int64), "bool" (GetBlockHeaderSupported's bool).
Res(kind, rpc, h, hashAtHeight, expectedHash, val, b) ==
    [kind |-> kind, rpc |-> rpc, height |-> h, hashAtHeight |-> hashAtHeight,
     expectedHash |-> expectedHash, val |-> val, b |-> b]

NoResult == Res("none", "", 0, NoHash, NoHash, Int64(0, 0), FALSE)

ResOk == Res("ok", "", 0, NoHash, NoHash, Int64(0, 0), FALSE)

\* fmt.Errorf("unable to retrieve ...: %w", err) of lines 105, 117, 131
ResBackendErr(rpc) == Res("backend", rpc, 0, NoHash, NoHash, Int64(0, 0), FALSE)

\* fmt.Errorf("block hash and block height mismatch; (height: %d,
\* hashAtHeight: %s, expectedHash: %s)", height, hash, expectedHash)
ResMismatch(h, hashAtHeight, expectedHash) ==
    Res("mismatch", "", h, hashAtHeight, expectedHash, Int64(0, 0), FALSE)

ResTimestamp(val) == Res("ts", "", 0, NoHash, NoHash, val, FALSE)

ResBool(b) == Res("bool", "", 0, NoHash, NoHash, Int64(0, 0), b)

\* ------------------------------------------------------------------ backend

NoHeader == [ts |-> Int64(0, 0), nonce |-> 0]

\* The chain the backend starts with: a block at height 1 and at height 2.
InitChain ==
    [h \in 1..MaxHeight |->
        IF h = 1 THEN BlockHash([ts |-> Int64(0, 5), nonce |-> 1])
        ELSE IF h = 2 THEN BlockHash([ts |-> Int64(1, 7), nonce |-> 2])
        ELSE NoHash]

\* ChainKit.GetBlockHash(ctx, height): any call may fail; it succeeds only
\* with the hash of the best chain's block at that height.
GetBlockHashOutcomes(h) ==
    { [ok |-> FALSE, hash |-> NoHash] } \cup
    ( IF h \in DOMAIN bestChain /\ bestChain[h] # NoHash
      THEN { [ok |-> TRUE, hash |-> bestChain[h]] }
      ELSE {} )

\* ChainKit.GetBlock(ctx, hash) and ChainKit.GetBlockHeader(ctx, hash): any
\* call may fail; it succeeds only for a block the backend has.
FetchOutcomes(h) ==
    { [ok |-> FALSE, header |-> NoHeader] } \cup
    ( IF h \in known THEN { [ok |-> TRUE, header |-> HeaderOf(h)] } ELSE {} )

\* ------------------------------------------------------- capability check

\* lndclient.AssertVersionCompatible(actual, expected) for a version that is
\* present: nil iff actual is at least expected (major, minor, patch).
VersionAtLeast(actual, expected) ==
    \/ actual.AppMajor > expected.AppMajor
    \/ /\ actual.AppMajor = expected.AppMajor
       /\ \/ actual.AppMinor > expected.AppMinor
          \/ /\ actual.AppMinor = expected.AppMinor
             /\ actual.AppPatch >= expected.AppPatch

\* The outcomes of the call of line 154: "nil", "err", or "panic".  With no
\* version on the connection handle the callee works on a nil pointer: it
\* either dereferences it (a panic) or reads zero values through nil-safe
\* getters (an error), and neither reports anything but an incompatibility.
AssertVersionCompatible(actual, expected) ==
    IF actual = NoVersion THEN { "panic", "err" }
    ELSE IF VersionAtLeast(actual, expected) THEN { "nil" }
    ELSE { "err" }

\* (variant) the comparison of line 157 inverted.
SupportedFrom_Inverted(outcome) == outcome # "nil"

\* line 157: getBlockHeaderSupported := getBlockHeaderUnsupported == nil
SupportedFrom(outcome) == outcome = "nil"

\* ---------------------------------------------- the flag's unguarded memory
\* l.getBlockHeaderSupported is a plain *bool read and written by several
\* goroutines with no synchronisation.  flagWrites is the order of the
\* stores of line 159.  A load by goroutine p may observe any store that is
\* not older than one p already observed (index 0 is the initial nil), and a
\* dereference of a pointer stored by another goroutine may still observe the
\* zero value of the freshly allocated bool unless p has already observed
\* its contents.

Max(a, b) == IF a >= b THEN a ELSE b

\* The stores (by index) a load of the pointer by p may return.
FlagLoads(p) == ptrIdx[p]..Len(flagWrites)

\* The values a dereference of store i by p may return.
DerefValues(p, i) ==
    IF i \in valSeen[p] THEN { flagWrites[i].val }
    ELSE { flagWrites[i].val, FALSE }

\* The flag as a tri-state value: what the newest store holds.
FlagState ==
    IF flagWrites = << >> THEN "unknown"
    ELSE IF flagWrites[Len(flagWrites)].val THEN "supported"
    ELSE "unsupported"

\* ------------------------------------------------------------------ cache
\* lru.Cache[uint32, cacheableTimestamp]: a sequence of [key, val], most
\* recently used first.  Every entry has size 1.

CacheHas(c, k) == \E i \in 1..Len(c) : c[i].key = k

CacheIndex(c, k) == CHOOSE i \in 1..Len(c) : c[i].key = k

\* (variant) the key's old entry left in place.
CacheRemove_Keep(c, k) == c

CacheRemove(c, k) == SelectSeq(c, LAMBDA e : e.key # k)

\* Cache.Get on a present key: the value.
CacheValue(c, k) == c[CacheIndex(c, k)].val

\* Cache.Get on a present key moves the entry to the front.
CacheTouch(c, k) == << c[CacheIndex(c, k)] >> \o CacheRemove(c, k)

\* (variant) a Put that never evicts.
CachePut_NoEvict(c, k, v) == << [key |-> k, val |-> v] >> \o CacheRemove(c, k)

\* Cache.Put: replaces the key's entry, puts the new entry at the front and
\* evicts from the back while the cache is over capacity.
CachePut(c, k, v) ==
    LET added == << [key |-> k, val |-> v] >> \o CacheRemove(c, k)
    IN  IF Len(added) > CacheCapacity THEN SubSeq(added, 1, CacheCapacity) ELSE added

\* The recency order of the heights after a use of k: a hit of Get and every
\* Put make k the most recently used height.
Use(u, k) == << k >> \o SelectSeq(u, LAMBDA x : x # k)

\* The cache's mutex: a cache operation by p acquires what earlier cache
\* operations released, and releases what p has observed of the flag.
SyncIdx(p) == Max(ptrIdx[p], cacheSync.idx)

SyncVals(p) == valSeen[p] \cup cacheSync.vals

\* -------------------------------------------------------------- call logs

\* An entry of calls[p]: the RPC, its argument (a height or a hash), whether
\* it succeeded and the hash it returned (of the block, for a fetch).
Rpc(name, arg, ok, ret) == [rpc |-> name, arg |-> arg, ok |-> ok, ret |-> ret]

\* An entry of cacheOps[p]: the operation, its key, and for "get" whether
\* the key was present and with which value; for "put" the value put.
CacheOp(name, key, found, val) == [op |-> name, key |-> key, found |-> found, val |-> val]

\* ------------------------------------------------ RegisterConfirmationsNtfn
\* regs holds the registrations made, in the order of the calls; as many are
\* made as there are goroutines.

\* A uint32 argument, kept as its top bit and its lower 31 bits.
Uint32(top, low) == [top |-> top, low |-> low]

\* int32(u) of a uint32: the same 32 bits read as two's complement.
Int32OfUint32(u) == IF u.top = 1 THEN (u.low - 2147483647) - 1 ELSE u.low

\* The values callers pass for numConfs, heightHint and confTarget.
Uint32Inputs == { Uint32(0, 6), Uint32(1, 0) }

\* lines 66-71: the notifier options.
NotifierOptions(includeBlock) ==
    IF includeBlock THEN { "reOrgChan", "includeBlock" } ELSE { "reOrgChan" }

\* What RegisterConfirmationsNtfn returned: the event (with Confirmed and
\* Cancel), the error stream and the error.
RegReturn(event, errChan, err) == [event |-> event, errChan |-> errChan, err |-> err]

\* fmt.Errorf("unable to register for conf: %w", err) of line 81
RegisterErr == "unable to register for conf"

\* lines 78-88: the three results for the backend's answer.
RegisterReturn(ok) ==
    IF ok THEN RegReturn(TRUE, TRUE, "nil") ELSE RegReturn(FALSE, FALSE, RegisterErr)

\* (variant) the scope left uncancelled when the registration fails.
RegisterScope_Leaked(ok) == "live"

\* lines 73 and 78-79: the scope made by context.WithCancel is cancelled
\* before returning when the backend rejected the registration.
RegisterScope(ok) == IF ok THEN "live" ELSE "cancelled"

\* (variant) a Cancel handle that is not the scope's cancel function.
CancelScope_Detached(scope) == scope

\* line 87: Cancel is the cancel function of the scope of line 73; a
\* context's cancel function cancels it, and does nothing on a cancelled one.
CancelScope(scope) == "cancelled"

\* The registrations made so far.
Regs == 1..Len(regs)

\* lines 60-89: the whole call; the backend accepts or rejects.  A
\* registration is the scope of line 73, the backend's subscription made
\* with that scope ("none" when rejected), what the backend was asked, the
\* notifications delivered on the two streams, the invocations of Cancel,
\* and what the call returned.
RegisterConfirmationsNtfn ==
    /\ Len(regs) < NumProcs
    /\ \E numConfs \in Uint32Inputs, includeBlock \in BOOLEAN, ok \in BOOLEAN :
        regs' = Append(regs,
                    [scope |-> RegisterScope(ok),
                     sub |-> IF ok THEN "active" ELSE "none",
                     numConfs |-> Int32OfUint32(numConfs),
                     heightHint |-> Int32OfUint32(Uint32(0, 6)),
                     opts |-> NotifierOptions(includeBlock),
                     delivered |-> << >>,
                     cancels |-> 0,
                     ret |-> RegisterReturn(ok)])
    /\ UNCHANGED << bridgeVars, sendLog, walletLog >>

\* The caller (any goroutine holding the event) invokes event.Cancel.
Cancel(r) ==
    /\ r \in Regs
    /\ regs[r].ret.event
    /\ regs[r].cancels < MaxCancels
    /\ regs' = [regs EXCEPT ![r].scope = CancelScope(@), ![r].cancels = @ + 1]
    /\ UNCHANGED << bridgeVars, sendLog, walletLog >>

\* The backend's notifier delivers within the scope it was registered with:
\* the confirmation on Confirmed (once), or a failure on the error stream;
\* either ends the subscription.
Notify(r) ==
    /\ r \in Regs
    /\ regs[r].sub = "active"
    /\ regs[r].scope = "live"
    /\ \E stream \in { "Confirmed", "errChan" } :
        regs' = [regs EXCEPT ![r].delivered = Append(@, stream), ![r].sub = "stopped"]
    /\ UNCHANGED << bridgeVars, sendLog, walletLog >>

\* The backend's notifier finds its scope cancelled and unsubscribes.
Unsubscribe(r) ==
    /\ r \in Regs
    /\ regs[r].sub = "active"
    /\ regs[r].scope = "cancelled"
    /\ regs' = [regs EXCEPT ![r].sub = "stopped"]
    /\ UNCHANGED << bridgeVars, sendLog, walletLog >>

\* ------------------------------------------------------------ SendMessage

\* The peers messages are sent to: public keys as their two coordinates.
Peers == { [x |-> 7, y |-> 4], [x |-> 7, y |-> 5], [x |-> 9, y |-> 4] }

\* route.NewVertex(&peer): the compressed key, the parity of y and then x.
NewVertex(peer) == << 2 + (peer.y % 2), peer.x >>

\* The peer a vertex identifies.
VertexPeer(v) == CHOOSE q \in Peers : NewVertex(q) = v

\* The typed messages: a declared type code (a uint16 MessageType) and a
\* body of fields, each written as two bytes.
Messages ==
    { [type |-> 32769, body |-> << 1, 300 >>],
      [type |-> 32770, body |-> << >>],
      [type |-> 32771, body |-> << 515, 70000 >>] }

FieldBytes(f) == << f \div 256, f % 256 >>

\* A field that does not fit its two bytes cannot be encoded.
EncodableField(f) == f < 65536

\* msg.Encode(&buf, 0) succeeds iff every field can be written.
Encodable(msg) == \A i \in 1..Len(msg.body) : EncodableField(msg.body[i])

\* What msg.Encode leaves in buf: the fields up to the first one that
\* cannot be written.
RECURSIVE EncodeFields(_)
EncodeFields(body) ==
    IF body = << >> \/ ~EncodableField(Head(body)) THEN << >>
    ELSE FieldBytes(Head(body)) \o EncodeFields(Tail(body))

\* The decoder of the message type: the fields of a payload.
RECURSIVE DecodeFields(_)
DecodeFields(data) ==
    IF Len(data) < 2 THEN << >>
    ELSE << (data[1] * 256) + data[2] >> \o DecodeFields(SubSeq(data, 3, Len(data)))

\* fmt.Errorf("unable to encode message: %w", err) of line 333
EncodeErr == "unable to encode message"

\* What Client.SendCustomMessage may return.
SendOutcomes == { "nil", "peer not connected" }

\* (variant) the envelope with the type code left at its zero value.
Envelope_NoType(peer, msg) ==
    [Peer |-> NewVertex(peer), MsgType |-> Uint32(0, 0), Data |-> EncodeFields(msg.body)]

\* lines 336-340: the lndclient.CustomMessage that is passed on.
Envelope(peer, msg) ==
    [Peer |-> NewVertex(peer), MsgType |-> Uint32(0, msg.type),
     Data |-> EncodeFields(msg.body)]

\* (variant) the encoding error ignored.
SendEnvelopes_Regardless(peer, msg) == << Envelope(peer, msg) >>

\* lines 331-336: the envelopes passed to SendCustomMessage, none when the
\* encoding failed.
SendEnvelopes(peer, msg) ==
    IF Encodable(msg) THEN << Envelope(peer, msg) >> ELSE << >>

\* lines 328-341: the whole call.
SendMessage ==
    /\ Len(sendLog) < MaxCalls
    /\ \E peer \in Peers, msg \in Messages, sent \in SendOutcomes :
        sendLog' = Append(sendLog,
                          [peer |-> peer, msg |-> msg,
                           envelopes |-> SendEnvelopes(peer, msg),
                           err |-> IF Encodable(msg) THEN sent ELSE EncodeErr])
    /\ UNCHANGED << bridgeVars, regs, walletLog >>

\* ------------------------------------------ PublishTransaction, EstimateFee

\* An error value: its cause and the context fmt.Errorf("...: %w") put
\* around it ("" for none).
Error(context, cause) == [context |-> context, cause |-> cause]

NilError == Error("", "nil")

\* The errors a WalletKit call may fail with.
BackendErrors == { "rpc unavailable", "rejected" }

\* The transactions published.
Transactions == { "mintTx", "transferTx" }

\* line 260
label == "tapd-asset-minting"

\* What a WalletKit call answers: a fee rate with no error, or an error.
WalletOutcomes == { [rate |-> 253, err |-> "nil"] } \cup
                  { [rate |-> 0, err |-> e] : e \in BackendErrors }

\* lines 261 and 268: the one backend call of a delegation.
WalletCalls(rpc, arg, out) == << [rpc |-> rpc, arg |-> arg] >>

\* lines 261 and 268: `return l.lnd.WalletKit...`, the backend's error is
\* the caller's error.
DelegatedError(out) == Error("", out.err)

\* lines 257-262: the whole call.
PublishTransaction ==
    /\ Len(walletLog) < MaxCalls
    /\ \E tx \in Transactions, out \in WalletOutcomes :
        walletLog' = Append(walletLog,
                            [op |-> "PublishTransaction", arg |-> << tx >>,
                             backendCalls |-> WalletCalls("WalletKit.PublishTransaction",
                                                          << tx, label >>, out),
                             backendErr |-> out.err,
                             rate |-> 0,
                             err |-> DelegatedError(out)])
    /\ UNCHANGED << bridgeVars, regs, sendLog >>

\* lines 265-269: the whole call.
EstimateFee ==
    /\ Len(walletLog) < MaxCalls
    /\ \E confTarget \in Uint32Inputs, out \in WalletOutcomes :
        walletLog' = Append(walletLog,
                            [op |-> "EstimateFee", arg |-> << confTarget >>,
                             backendCalls |-> WalletCalls("WalletKit.EstimateFeeRate",
                                                          << Int32OfUint32(confTarget) >>, out),
                             backendErr |-> out.err,
                             rate |-> out.rate,
                             err |-> DelegatedError(out)])
    /\ UNCHANGED << bridgeVars, regs, sendLog >>

\* ---------------------------------------------------------- initial state

\* NewLndRpcChainBridge: the flag is nil and the cache is empty.
InitBridge ==
    /\ flagWrites = << >>
    /\ ptrIdx = [p \in Procs |-> 0]
    /\ valSeen = [p \in Procs |-> {}]
    /\ cacheSync = [idx |-> 0, vals |-> {}]
    /\ cache = << >>
    /\ bestChain = InitChain
    /\ known = { InitChain[h] : h \in 1..MaxHeight } \ { NoHash }
    /\ reorgs = 0
    /\ pc = [p \in Procs |-> "idle"]
    /\ op = [p \in Procs |-> "none"]
    /\ hdr = [p \in Procs |-> NoHeader]
    /\ height = [p \in Procs |-> 0]
    /\ hash = [p \in Procs |-> NoHash]
    /\ header = [p \in Procs |-> NoHeader]
    /\ sup = [p \in Procs |-> FALSE]
    /\ computed = [p \in Procs |-> FALSE]
    /\ calls = [p \in Procs |-> << >>]
    /\ capCalls = [p \in Procs |-> 0]
    /\ cacheOps = [p \in Procs |-> << >>]
    /\ result = [p \in Procs |-> NoResult]
    /\ compares = [p \in Procs |-> 0]
    /\ capReturns = [p \in Procs |-> 0]
    /\ started = 0
    /\ crashed = FALSE
    /\ uses = << >>
    /\ regs = << >>
    /\ sendLog = << >>
    /\ walletLog = << >>

\* The bridge on a connection to an lnd just below or at the minimal
\* version.
Init == version \in { Version(0, 17, 0), Version(0, 17, 1) } /\ InitBridge

\* The bridge on any connection handle, also one without version
\* information.
InitAnyConnection == version \in Versions \cup { NoVersion } /\ InitBridge

\* The bridge after goroutine 1 has looked up the timestamp of height 1 on a
\* new bridge and every step of the lookup succeeded: the flag is resolved,
\* the cache holds height 1, and goroutine 1 has returned.  started counts
\* the calls from here on.
InitCached ==
    /\ version \in { Version(0, 17, 0), Version(0, 17, 1) }
    /\ LET b == VersionAtLeast(version, getBlockHeaderMinimalVersion)
           h1 == InitChain[1]
           t1 == Uint32OfInt64(HeaderOf(InitChain[1]).ts)
           first(x, zero) == [p \in Procs |-> IF p = 1 THEN x ELSE zero]
       IN  /\ flagWrites = << [by |-> 1, val |-> b] >>
           /\ ptrIdx = first(1, 0)
           /\ valSeen = first({ 1 }, {})
           /\ cacheSync = [idx |-> 1, vals |-> { 1 }]
           /\ cache = << [key |-> 1, val |-> t1] >>
           /\ uses = << 1 >>
           /\ pc = first("ret", "idle")
           /\ op = first("GetBlockTimestamp", "none")
           /\ hdr = [p \in Procs |-> NoHeader]
           /\ height = first(1, 0)
           /\ hash = first(h1, NoHash)
           /\ header = first(HeaderOf(h1), NoHeader)
           /\ sup = first(b, FALSE)
           /\ computed = first(b, FALSE)
           /\ calls = first(<< Rpc("getBlockHash", 1, TRUE, h1),
                               Rpc(IF b THEN "getBlockHeader" ELSE "getBlock", h1, TRUE, h1) >>,
                            << >>)
           /\ capCalls = first(1, 0)
           /\ cacheOps = first(<< CacheOp("get", 1, FALSE, 0), CacheOp("put", 1, FALSE, t1) >>,
                               << >>)
           /\ result = first(ResTimestamp(Int64(0, t1)), NoResult)
           /\ compares = first(1, 0)
           /\ capReturns = first(1, 0)
    /\ bestChain = InitChain
    /\ known = { InitChain[h] : h \in 1..MaxHeight } \ { NoHash }
    /\ reorgs = 0
    /\ started = 0
    /\ crashed = FALSE
    /\ regs = << >>
    /\ sendLog = << >>
    /\ walletLog = << >>

\* -------------------------------------------------------- starting a call

\* A goroutine that is in no call starts one; the per-call locals start
\* from their zero values.
Enter(p, o, hd, h, at) ==
    /\ ~crashed
    /\ pc[p] \in { "idle", "ret" }
    /\ started < MaxCalls
    /\ started' = started + 1
    /\ op' = [op EXCEPT ![p] = o]
    /\ hdr' = [hdr EXCEPT ![p] = hd]
    /\ height' = [height EXCEPT ![p] = h]
    /\ hash' = [hash EXCEPT ![p] = NoHash]
    /\ header' = [header EXCEPT ![p] = NoHeader]
    /\ sup' = [sup EXCEPT ![p] = FALSE]
    /\ computed' = [computed EXCEPT ![p] = FALSE]
    /\ calls' = [calls EXCEPT ![p] = << >>]
    /\ capCalls' = [capCalls EXCEPT ![p] = IF o = "GetBlockHeaderSupported" THEN 1 ELSE 0]
    /\ cacheOps' = [cacheOps EXCEPT ![p] = << >>]
    /\ result' = [result EXCEPT ![p] = NoResult]
    /\ pc' = [pc EXCEPT ![p] = at]
    /\ UNCHANGED << regs, sendLog, walletLog, uses, version, flagWrites, ptrIdx, valSeen, cacheSync, cache, bestChain,
                    known, reorgs, compares, capReturns, crashed >>

\* The headers callers verify: one of a block of the initial chain and one
\* of a block the backend does not have.
VerifiedHeaders == { hd \in Headers : hd.nonce \in { 1, 3 } }

\* The heights callers verify at: the unset height, the first block's and
\* the largest.
VerifiedHeights == { 0, 1, MaxHeight }

CallVerifyBlock(p) ==
    \E hd \in VerifiedHeaders, h \in VerifiedHeights : Enter(p, "VerifyBlock", hd, h, "vb_entry")

CallGetBlockTimestamp(p) ==
    \E h \in Heights : Enter(p, "GetBlockTimestamp", NoHeader, h, "gbt_entry")

CallGetBlockHeaderSupported(p) ==
    Enter(p, "GetBlockHeaderSupported", NoHeader, 0, "gbhs_check")

\* ------------------------------------------------ GetBlockHeaderSupported

\* Where the caller of GetBlockHeaderSupported goes on with the returned
\* value: line 194 (VerifyBlock), line 235 (GetBlockTimestamp), or back to
\* the bridge's caller.
AfterCapability(o) ==
    IF o = "VerifyBlock" THEN "vb_fetch"
    ELSE IF o = "GetBlockTimestamp" THEN "gbt_fetch"
    ELSE "ret"

\* `return *l.getBlockHeaderSupported` (lines 144 and 160): a load of the
\* field and a dereference, neither synchronised.
ReturnFlag(p) ==
    \E i \in FlagLoads(p) : \E v \in DerefValues(p, i) :
        /\ ptrIdx' = [ptrIdx EXCEPT ![p] = i]
        /\ valSeen' = [valSeen EXCEPT ![p] =
                          IF v = flagWrites[i].val THEN @ \cup { i } ELSE @]
        /\ sup' = [sup EXCEPT ![p] = v]
        /\ capReturns' = [capReturns EXCEPT ![p] = @ + 1]
        /\ result' = [result EXCEPT ![p] =
                          IF op[p] = "GetBlockHeaderSupported" THEN ResBool(v) ELSE @]
        /\ pc' = [pc EXCEPT ![p] = AfterCapability(op[p])]

\* (variant) the memoized flag ignored.
FlagBranch_NoMemo(i) == "gbhs_compare"

\* line 143: a nil flag goes on to the comparison, any other to line 144.
FlagBranch(i) == IF i = 0 THEN "gbhs_compare" ELSE "gbhs_load"

\* line 143: if l.getBlockHeaderSupported != nil
GBHS_Check(p) ==
    /\ ~crashed
    /\ pc[p] = "gbhs_check"
    /\ \E i \in FlagLoads(p) :
        /\ ptrIdx' = [ptrIdx EXCEPT ![p] = i]
        /\ pc' = [pc EXCEPT ![p] = FlagBranch(i)]
    /\ UNCHANGED << regs, sendLog, walletLog, uses, version, flagWrites, valSeen, cacheSync, cache, bestChain, known,
                    reorgs, op, hdr, height, hash, header, sup, computed, calls,
                    capCalls, cacheOps, result, compares, capReturns, started, crashed >>

\* line 144: return *l.getBlockHeaderSupported
GBHS_Load(p) ==
    /\ ~crashed
    /\ pc[p] = "gbhs_load"
    /\ ReturnFlag(p)
    /\ UNCHANGED << regs, sendLog, walletLog, uses, version, flagWrites, cacheSync, cache, bestChain, known, reorgs,
                    op, hdr, height, hash, header, computed, calls, capCalls,
                    cacheOps, compares, started, crashed >>

\* lines 148-157: the version comparison.
GBHS_Compare(p) ==
    /\ ~crashed
    /\ pc[p] = "gbhs_compare"
    /\ compares' = [compares EXCEPT ![p] = @ + 1]
    /\ \E o \in AssertVersionCompatible(version, getBlockHeaderMinimalVersion) :
        IF o = "panic"
        THEN /\ crashed' = TRUE
             /\ pc' = [pc EXCEPT ![p] = "panic"]
             /\ UNCHANGED computed
        ELSE /\ computed' = [computed EXCEPT ![p] = SupportedFrom(o)]
             /\ pc' = [pc EXCEPT ![p] = "gbhs_store"]
             /\ UNCHANGED crashed
    /\ UNCHANGED << regs, sendLog, walletLog, uses, version, flagWrites, ptrIdx, valSeen, cacheSync, cache, bestChain,
                    known, reorgs, op, hdr, height, hash, header, sup, calls, capCalls,
                    cacheOps, result, capReturns, started >>

\* line 159: l.getBlockHeaderSupported = &getBlockHeaderSupported
GBHS_Store(p) ==
    /\ ~crashed
    /\ pc[p] = "gbhs_store"
    /\ flagWrites' = Append(flagWrites, [by |-> p, val |-> computed[p]])
    /\ ptrIdx' = [ptrIdx EXCEPT ![p] = Len(flagWrites) + 1]
    /\ valSeen' = [valSeen EXCEPT ![p] = @ \cup { Len(flagWrites) + 1 }]
    /\ pc' = [pc EXCEPT ![p] = "gbhs_return"]
    /\ UNCHANGED << regs, sendLog, walletLog, uses, version, cacheSync, cache, bestChain, known, reorgs, op, hdr,
                    height, hash, header, sup, computed, calls, capCalls, cacheOps,
                    result, compares, capReturns, started, crashed >>

\* line 160: return *l.getBlockHeaderSupported
GBHS_Return(p) ==
    /\ ~crashed
    /\ pc[p] = "gbhs_return"
    /\ ReturnFlag(p)
    /\ UNCHANGED << regs, sendLog, walletLog, uses, version, flagWrites, cacheSync, cache, bestChain, known, reorgs,
                    op, hdr, height, hash, header, computed, calls, capCalls,
                    cacheOps, compares, started, crashed >>

\* ------------------------------------------------------------- VerifyBlock

\* (variant) the error of GetBlock dropped.
VerifyUnsetHeight_IgnoresError(fetch) == ResOk

\* lines 172-175: with no height, the error of GetBlock is the result.
VerifyUnsetHeight(fetch) ==
    IF fetch.ok THEN ResOk ELSE ResBackendErr("getBlock")

\* (variant) the comparison of the hashes left out.
HeightCheck_Ignored(h, hashAtHeight, expectedHash) == ResOk

\* (variant) the two hashes of the message in each other's place.
HeightCheck_Swapped(h, hashAtHeight, expectedHash) ==
    IF hashAtHeight # expectedHash
    THEN ResMismatch(h, expectedHash, hashAtHeight)
    ELSE ResOk

\* lines 184-189: the hash found at the height against the header's hash.
\* ResOk stands for "no error, go on".
HeightCheck(h, hashAtHeight, expectedHash) ==
    IF hashAtHeight # expectedHash
    THEN ResMismatch(h, hashAtHeight, expectedHash)
    ELSE ResOk

\* (variant) the branches of line 194 exchanged.
PresenceRpc_Swapped(supported) ==
    IF supported THEN "getBlock" ELSE "getBlockHeader"

\* lines 194-199: the RPC of the presence check.
PresenceRpc(supported) ==
    IF supported THEN "getBlockHeader" ELSE "getBlock"

\* lines 195-196 and 199-200: the fetch's error is the result.
PresenceResult(rpc, fetch) ==
    IF fetch.ok THEN ResOk ELSE ResBackendErr(rpc)

\* lines 172-175: height == 0.
VB_HeightZero(p) ==
    /\ ~crashed
    /\ pc[p] = "vb_entry"
    /\ height[p] = 0
    /\ \E r \in FetchOutcomes(BlockHash(hdr[p])) :
        /\ calls' = [calls EXCEPT ![p] =
                        Append(@, Rpc("getBlock", BlockHash(hdr[p]), r.ok, BlockHash(r.header)))]
        /\ result' = [result EXCEPT ![p] = VerifyUnsetHeight(r)]
    /\ pc' = [pc EXCEPT ![p] = "ret"]
    /\ UNCHANGED << regs, sendLog, walletLog, uses, version, flagWrites, ptrIdx, valSeen, cacheSync, cache, bestChain,
                    known, reorgs, op, hdr, height, hash, header, sup, computed,
                    capCalls, cacheOps, compares, capReturns, started, crashed >>

\* lines 179-189: GetBlockHash(height), then the comparison of the hashes.
VB_GetBlockHash(p) ==
    /\ ~crashed
    /\ pc[p] = "vb_entry"
    /\ height[p] # 0
    /\ \E r \in GetBlockHashOutcomes(height[p]) :
        /\ calls' = [calls EXCEPT ![p] = Append(@, Rpc("getBlockHash", height[p], r.ok, r.hash))]
        /\ IF ~r.ok
           THEN /\ result' = [result EXCEPT ![p] = ResBackendErr("getBlockHash")]
                /\ pc' = [pc EXCEPT ![p] = "ret"]
                /\ UNCHANGED << hash, capCalls >>
           ELSE /\ hash' = [hash EXCEPT ![p] = r.hash]
                /\ LET chk == HeightCheck(height[p], r.hash, BlockHash(hdr[p]))
                   IN  IF chk # ResOk
                       THEN /\ result' = [result EXCEPT ![p] = chk]
                            /\ pc' = [pc EXCEPT ![p] = "ret"]
                            /\ UNCHANGED capCalls
                       ELSE /\ pc' = [pc EXCEPT ![p] = "gbhs_check"]
                            /\ capCalls' = [capCalls EXCEPT ![p] = @ + 1]
                            /\ UNCHANGED result
    /\ UNCHANGED << regs, sendLog, walletLog, uses, version, flagWrites, ptrIdx, valSeen, cacheSync, cache, bestChain,
                    known, reorgs, op, hdr, height, header, sup, computed, cacheOps,
                    compares, capReturns, started, crashed >>

\* lines 194-200: the presence check with GetBlockHeader or GetBlock.
VB_Fetch(p) ==
    /\ ~crashed
    /\ pc[p] = "vb_fetch"
    /\ \E r \in FetchOutcomes(BlockHash(hdr[p])) :
        /\ calls' = [calls EXCEPT ![p] =
                        Append(@, Rpc(PresenceRpc(sup[p]), BlockHash(hdr[p]), r.ok,
                                      BlockHash(r.header)))]
        /\ result' = [result EXCEPT ![p] = PresenceResult(PresenceRpc(sup[p]), r)]
    /\ pc' = [pc EXCEPT ![p] = "ret"]
    /\ UNCHANGED << regs, sendLog, walletLog, uses, version, flagWrites, ptrIdx, valSeen, cacheSync, cache, bestChain,
                    known, reorgs, op, hdr, height, hash, header, sup, computed,
                    capCalls, cacheOps, compares, capReturns, started, crashed >>

\* ------------------------------------------------------- GetBlockTimestamp

\* (variant) no shortcut for height 0.
HeightShortcut_None(h) == Res("lookup", "", 0, NoHash, NoHash, Int64(0, 0), FALSE)

\* lines 219-221: what is returned for the height with no cache or backend
\* access; "lookup" stands for going on to the cache.
HeightShortcut(h) ==
    IF h = 0 THEN ResTimestamp(Int64(0, 0)) ELSE Res("lookup", "", 0, NoHash, NoHash, Int64(0, 0), FALSE)

\* (variant) a hit that returns the zero value instead of the entry.
CacheHit_Zero(c, h) == ResTimestamp(Int64(0, 0))

\* lines 223-226: a hit returns int64(cacheTS).
CacheHit(c, h) == ResTimestamp(Int64OfUint32(CacheValue(c, h)))

\* (variant) a failure that returns a non-zero value.
LookupFailed_NonZero == ResTimestamp(Int64(0, 1))

\* lines 230, 238 and 243: every backend failure returns 0.
LookupFailed == ResTimestamp(Int64(0, 0))

\* (variant) the upper half of the timestamp taken.
TimestampOf_Upper(hd) == hd.ts.hi

\* line 249: ts := uint32(header.Timestamp.Unix())
TimestampOf(hd) == Uint32OfInt64(hd.ts)

\* lines 219-221: height == 0.
GBT_HeightZero(p) ==
    /\ ~crashed
    /\ pc[p] = "gbt_entry"
    /\ HeightShortcut(height[p]).kind = "ts"
    /\ result' = [result EXCEPT ![p] = HeightShortcut(height[p])]
    /\ pc' = [pc EXCEPT ![p] = "ret"]
    /\ UNCHANGED << regs, sendLog, walletLog, uses, version, flagWrites, ptrIdx, valSeen, cacheSync, cache, bestChain,
                    known, reorgs, op, hdr, height, hash, header, sup, computed, calls,
                    capCalls, cacheOps, compares, capReturns, started, crashed >>

\* lines 223-226: blockTimestampCache.Get(height).
GBT_CacheGet(p) ==
    /\ ~crashed
    /\ pc[p] = "gbt_entry"
    /\ HeightShortcut(height[p]).kind = "lookup"
    /\ cacheOps' = [cacheOps EXCEPT ![p] =
                       Append(@, CacheOp("get", height[p], CacheHas(cache, height[p]),
                                         IF CacheHas(cache, height[p])
                                         THEN CacheValue(cache, height[p]) ELSE 0))]
    /\ ptrIdx' = [ptrIdx EXCEPT ![p] = SyncIdx(p)]
    /\ valSeen' = [valSeen EXCEPT ![p] = SyncVals(p)]
    /\ cacheSync' = [idx |-> SyncIdx(p), vals |-> SyncVals(p)]
    /\ IF CacheHas(cache, height[p])
       THEN /\ result' = [result EXCEPT ![p] = CacheHit(cache, height[p])]
            /\ cache' = CacheTouch(cache, height[p])
            /\ uses' = Use(uses, height[p])
            /\ pc' = [pc EXCEPT ![p] = "ret"]
       ELSE /\ pc' = [pc EXCEPT ![p] = "gbt_hash"]
            /\ UNCHANGED << result, cache, uses >>
    /\ UNCHANGED << regs, sendLog, walletLog, version, flagWrites, bestChain, known, reorgs, op, hdr, height,
                    hash, header, sup, computed, calls, capCalls, compares, capReturns, started,
                    crashed >>

\* lines 228-231: ChainKit.GetBlockHash(height).
GBT_GetBlockHash(p) ==
    /\ ~crashed
    /\ pc[p] = "gbt_hash"
    /\ \E r \in GetBlockHashOutcomes(height[p]) :
        /\ calls' = [calls EXCEPT ![p] = Append(@, Rpc("getBlockHash", height[p], r.ok, r.hash))]
        /\ IF ~r.ok
           THEN /\ result' = [result EXCEPT ![p] = LookupFailed]
                /\ pc' = [pc EXCEPT ![p] = "ret"]
                /\ UNCHANGED << hash, capCalls >>
           ELSE /\ hash' = [hash EXCEPT ![p] = r.hash]
                /\ pc' = [pc EXCEPT ![p] = "gbhs_check"]
                /\ capCalls' = [capCalls EXCEPT ![p] = @ + 1]
                /\ UNCHANGED result
    /\ UNCHANGED << regs, sendLog, walletLog, uses, version, flagWrites, ptrIdx, valSeen, cacheSync, cache, bestChain,
                    known, reorgs, op, hdr, height, header, sup, computed, cacheOps,
                    compares, capReturns, started, crashed >>

\* lines 235-247: the header by GetBlockHeader, or the block by GetBlock.
GBT_Fetch(p) ==
    /\ ~crashed
    /\ pc[p] = "gbt_fetch"
    /\ \E r \in FetchOutcomes(hash[p]) :
        /\ calls' = [calls EXCEPT ![p] =
                        Append(@, Rpc(PresenceRpc(sup[p]), hash[p], r.ok, BlockHash(r.header)))]
        /\ IF ~r.ok
           THEN /\ result' = [result EXCEPT ![p] = LookupFailed]
                /\ pc' = [pc EXCEPT ![p] = "ret"]
                /\ UNCHANGED header
           ELSE /\ header' = [header EXCEPT ![p] = r.header]
                /\ pc' = [pc EXCEPT ![p] = "gbt_put"]
                /\ UNCHANGED result
    /\ UNCHANGED << regs, sendLog, walletLog, uses, version, flagWrites, ptrIdx, valSeen, cacheSync, cache, bestChain,
                    known, reorgs, op, hdr, height, hash, sup, computed, capCalls,
                    cacheOps, compares, capReturns, started, crashed >>

\* lines 249-252: the timestamp is put into the cache and returned.
GBT_Put(p) ==
    /\ ~crashed
    /\ pc[p] = "gbt_put"
    /\ cacheOps' = [cacheOps EXCEPT ![p] =
                       Append(@, CacheOp("put", height[p], FALSE, TimestampOf(header[p])))]
    /\ ptrIdx' = [ptrIdx EXCEPT ![p] = SyncIdx(p)]
    /\ valSeen' = [valSeen EXCEPT ![p] = SyncVals(p)]
    /\ cacheSync' = [idx |-> SyncIdx(p), vals |-> SyncVals(p)]
    /\ cache' = CachePut(cache, height[p], TimestampOf(header[p]))
    /\ uses' = Use(uses, height[p])
    /\ result' = [result EXCEPT ![p] = ResTimestamp(Int64OfUint32(TimestampOf(header[p])))]
    /\ pc' = [pc EXCEPT ![p] = "ret"]
    /\ UNCHANGED << regs, sendLog, walletLog, version, flagWrites, bestChain, known, reorgs, op, hdr, height,
                    hash, header, sup, computed, calls, capCalls, compares, capReturns, started,
                    crashed >>

\* ----------------------------------------------------------------- backend

\* The best chain is reorganised: another block takes a height.
Reorg ==
    /\ ~crashed
    /\ reorgs < MaxReorgs
    /\ \E h \in 1..MaxHeight : \E hd \in Headers :
        /\ \A g \in 1..MaxHeight : bestChain[g] # BlockHash(hd)
        /\ bestChain' = [bestChain EXCEPT ![h] = BlockHash(hd)]
        /\ known' = known \cup { BlockHash(hd) }
    /\ reorgs' = reorgs + 1
    /\ UNCHANGED << regs, sendLog, walletLog, uses, version, flagWrites, ptrIdx, valSeen, cacheSync, cache, pc, op, hdr,
                    height, hash, header, sup, computed, calls, capCalls, cacheOps,
                    result, compares, capReturns, started, crashed >>

\* ---------------------------------------------------------- specification

Next ==
    \/ \E p \in Procs : CallVerifyBlock(p)
    \/ \E p \in Procs : CallGetBlockTimestamp(p)
    \/ \E p \in Procs : CallGetBlockHeaderSupported(p)
    \/ \E p \in Procs : GBHS_Check(p)
    \/ \E p \in Procs : GBHS_Load(p)
    \/ \E p \in Procs : GBHS_Compare(p)
    \/ \E p \in Procs : GBHS_Store(p)
    \/ \E p \in Procs : GBHS_Return(p)
    \/ \E p \in Procs : VB_HeightZero(p)
    \/ \E p \in Procs : VB_GetBlockHash(p)
    \/ \E p \in Procs : VB_Fetch(p)
    \/ \E p \in Procs : GBT_HeightZero(p)
    \/ \E p \in Procs : GBT_CacheGet(p)
    \/ \E p \in Procs : GBT_GetBlockHash(p)
    \/ \E p \in Procs : GBT_Fetch(p)
    \/ \E p \in Procs : GBT_Put(p)

Spec == Init /\ [][Next]_vars

\* The capability check alone, on connection handles with any version and
\* with no version information.
NextCapability ==
    \/ \E p \in Procs : CallGetBlockHeaderSupported(p)
    \/ \E p \in Procs : GBHS_Check(p)
    \/ \E p \in Procs : GBHS_Load(p)
    \/ \E p \in Procs : GBHS_Compare(p)
    \/ \E p \in Procs : GBHS_Store(p)
    \/ \E p \in Procs : GBHS_Return(p)

SpecAnyConnection == InitAnyConnection /\ [][NextCapability]_vars

\* The bridge against a backend whose best chain is reorganised meanwhile.
NextReorg == Next \/ Reorg

SpecReorg == Init /\ [][NextReorg]_vars

\* Verifications and capability checks on a new bridge.
NextVerify ==
    \/ \E p \in Procs : CallVerifyBlock(p)
    \/ \E p \in Procs : CallGetBlockHeaderSupported(p)
    \/ \E p \in Procs : GBHS_Check(p)
    \/ \E p \in Procs : GBHS_Load(p)
    \/ \E p \in Procs : GBHS_Compare(p)
    \/ \E p \in Procs : GBHS_Store(p)
    \/ \E p \in Procs : GBHS_Return(p)
    \/ \E p \in Procs : VB_HeightZero(p)
    \/ \E p \in Procs : VB_GetBlockHash(p)
    \/ \E p \in Procs : VB_Fetch(p)

SpecVerify == Init /\ [][NextVerify]_vars

\* Timestamp lookups on a new bridge.
NextLookups ==
    \/ \E p \in Procs : CallGetBlockTimestamp(p)
    \/ \E p \in Procs : GBHS_Check(p)
    \/ \E p \in Procs : GBHS_Load(p)
    \/ \E p \in Procs : GBHS_Compare(p)
    \/ \E p \in Procs : GBHS_Store(p)
    \/ \E p \in Procs : GBHS_Return(p)
    \/ \E p \in Procs : GBT_HeightZero(p)
    \/ \E p \in Procs : GBT_CacheGet(p)
    \/ \E p \in Procs : GBT_GetBlockHash(p)
    \/ \E p \in Procs : GBT_Fetch(p)
    \/ \E p \in Procs : GBT_Put(p)

SpecLookups == Init /\ [][NextLookups]_vars

\* Timestamp lookups on a bridge whose cache holds a height already.
NextCached ==
    \/ \E p \in Procs : CallGetBlockTimestamp(p)
    \/ \E p \in Procs : GBHS_Check(p)
    \/ \E p \in Procs : GBHS_Load(p)
    \/ \E p \in Procs : GBT_HeightZero(p)
    \/ \E p \in Procs : GBT_CacheGet(p)
    \/ \E p \in Procs : GBT_GetBlockHash(p)
    \/ \E p \in Procs : GBT_Fetch(p)
    \/ \E p \in Procs : GBT_Put(p)

SpecCached == InitCached /\ [][NextCached]_vars

\* The confirmation registrations of the goroutines.
NextNotifier ==
    \/ RegisterConfirmationsNtfn
    \/ \E r \in Procs : Cancel(r)
    \/ \E r \in Procs : Notify(r)
    \/ \E r \in Procs : Unsubscribe(r)

SpecNotifier == Init /\ [][NextNotifier]_vars

\* The message transport client.
NextTransport == SendMessage

SpecTransport == Init /\ [][NextTransport]_vars

\* The delegations to the backend's wallet.
NextWallet == PublishTransaction \/ EstimateFee

SpecWallet == Init /\ [][NextWallet]_vars

\* ------------------------------------------------------------ properties

\* Goroutine p has returned from a call of o; op, hdr, height, calls,
\* capCalls, cacheOps and result describe that call.
Returned(p, o) == pc[p] = "ret" /\ op[p] = o

\* In its current call p has received GetBlockHeaderSupported's value.
CapAnswered(p) ==
    \/ pc[p] \in { "vb_fetch", "gbt_fetch", "gbt_put" }
    \/ pc[p] = "ret" /\ capCalls[p] > 0

\* C1: a VerifyBlock call with height 0 that has returned made exactly one
\* backend call, getBlock of the header's hash, never invoked the capability
\* check, and returned nil exactly when that fetch succeeded.
C1_VerifyUnsetHeight ==
    \A p \in Procs :
        (Returned(p, "VerifyBlock") /\ height[p] = 0) =>
            /\ Len(calls[p]) = 1
            /\ calls[p][1].rpc = "getBlock"
            /\ calls[p][1].arg = BlockHash(hdr[p])
            /\ capCalls[p] = 0
            /\ (result[p].kind = "ok") <=> calls[p][1].ok
            /\ result[p].kind \in { "ok", "backend" }

\* C1 witness: both outcomes of a height-0 verification have been returned.
C1_Witness ==
    \E p, q \in Procs :
        /\ Returned(p, "VerifyBlock") /\ height[p] = 0 /\ result[p].kind = "ok"
        /\ Returned(q, "VerifyBlock") /\ height[q] = 0 /\ result[q].kind = "backend"

\* The call of p got hash H for its height N > 0 from the backend.
GotHashAtHeight(p) ==
    /\ Returned(p, "VerifyBlock")
    /\ height[p] > 0
    /\ Len(calls[p]) >= 1
    /\ calls[p][1].rpc = "getBlockHash"
    /\ calls[p][1].ok

\* C2: when the backend returned hash H for height N > 0 and the header's
\* hash differs from H, VerifyBlock returns the mismatch error carrying N,
\* H and the header's hash; it is no backend error and no success, and no
\* further call was made.
C2_Mismatch ==
    \A p \in Procs :
        (GotHashAtHeight(p) /\ calls[p][1].ret # BlockHash(hdr[p])) =>
            /\ result[p] = ResMismatch(height[p], calls[p][1].ret, BlockHash(hdr[p]))
            /\ result[p].kind \notin { "backend", "ok" }
            /\ Len(calls[p]) = 1

\* C2 witness: a mismatch has been returned for a height whose block exists.
C2_Witness ==
    \E p \in Procs :
        /\ GotHashAtHeight(p)
        /\ calls[p][1].ret # BlockHash(hdr[p])
        /\ result[p].kind = "mismatch"

\* C3: after a matching hash at height > 0, VerifyBlock consulted the
\* capability once and made exactly one presence fetch of the header's
\* hash: getBlockHeader if the capability check returned supported, getBlock
\* if it returned unsupported; it returned nil exactly when that fetch
\* succeeded.
C3_PresenceFetch ==
    \A p \in Procs :
        (GotHashAtHeight(p) /\ calls[p][1].ret = BlockHash(hdr[p])) =>
            /\ capCalls[p] = 1
            /\ Len(calls[p]) = 2
            /\ calls[p][2].rpc = (IF sup[p] THEN "getBlockHeader" ELSE "getBlock")
            /\ calls[p][2].arg = BlockHash(hdr[p])
            /\ (result[p].kind = "ok") <=> calls[p][2].ok
            /\ result[p].kind \in { "ok", "backend" }

\* C3 witness: a verification at a matching height has succeeded through
\* getBlockHeader.
C3_Witness ==
    \E p \in Procs :
        /\ GotHashAtHeight(p)
        /\ calls[p][1].ret = BlockHash(hdr[p])
        /\ Len(calls[p]) = 2
        /\ calls[p][2].rpc = "getBlockHeader"
        /\ result[p].kind = "ok"

\* The version comparisons performed by the goroutines 1..n together.
RECURSIVE ComparesUpTo(_)
ComparesUpTo(n) == IF n = 0 THEN 0 ELSE compares[n] + ComparesUpTo(n - 1)

TotalCompares == ComparesUpTo(NumProcs)

\* C4 as stated: over all calls of all goroutines, sequential or
\* interleaved, the version comparison is performed at most once.
C4_AtMostOnce == TotalCompares <= 1

\* C4 amended: each goroutine performs the version comparison at most once
\* over all its calls; goroutines whose first checks overlap may each
\* perform it.
C4_AtMostOncePerGoroutine ==
    \A p \in Procs : compares[p] <= 1

\* C4 witness: a goroutine has got the capability from two calls with one
\* comparison.
C4_Witness ==
    \E p \in Procs :
        /\ capReturns[p] >= 2
        /\ compares[p] = 1

\* C5: the flag starts unknown; every store to it holds the same value, so
\* it never changes once resolved; and every GetBlockHeaderSupported call
\* that has returned has returned that value.
C5_FlagMonotone ==
    /\ \A i, j \in 1..Len(flagWrites) : flagWrites[i].val = flagWrites[j].val
    /\ \A p \in Procs : CapAnswered(p) => (flagWrites # << >> /\ sup[p] = flagWrites[1].val)

\* Goroutine p is about to store to the flag (line 159).
FlagWriter(p) == pc[p] = "gbhs_store"

\* Goroutine p is about to load or store the flag (lines 143, 144, 159, 160).
\* Neither the struct (lines 34-42) nor GetBlockHeaderSupported has a lock,
\* so no access is inside a critical section.
FlagAccessor(p) == pc[p] \in { "gbhs_check", "gbhs_load", "gbhs_store", "gbhs_return" }

\* C6: no goroutine stores to the flag while another goroutine loads or
\* stores it.
C6_NoFlagRace ==
    \A p, q \in Procs : (p # q /\ FlagWriter(p)) => ~FlagAccessor(q)

\* The connection's version is present and below 0.17.1.
BelowMinimum ==
    /\ version # NoVersion
    /\ \/ version.AppMajor < 0
       \/ version.AppMajor = 0 /\ version.AppMinor < 17
       \/ version.AppMajor = 0 /\ version.AppMinor = 17 /\ version.AppPatch < 1

\* The capability check of p's current call is over: it has returned, or
\* the comparison has panicked.
CapEnded(p) == CapAnswered(p) \/ pc[p] = "panic"

C8_HeightZeroShortcut ==
    [][\A p \in Procs :
          (pc[p] = "gbt_entry" /\ height[p] = 0 /\ pc'[p] # pc[p]) =>
              /\ pc'[p] = "ret"
              /\ result'[p] = ResTimestamp(Int64(0, 0))
              /\ calls'[p] = << >>
              /\ capCalls'[p] = 0
              /\ cacheOps'[p] = << >>
              /\ cache' = cache
              /\ flagWrites' = flagWrites]_vars

\* C8 witness: a lookup of height 0 has returned 0 while the cache holds an
\* entry.
C8_Witness ==
    \E p \in Procs :
        /\ Returned(p, "GetBlockTimestamp")
        /\ height[p] = 0
        /\ result[p] = ResTimestamp(Int64(0, 0))
        /\ cache # << >>

\* C9: the step of a GetBlockTimestamp call whose height is in the cache
\* returns the cached value, with no backend call and no capability check.
C9_CachedLookup ==
    [][\A p \in Procs :
          (pc[p] = "gbt_entry" /\ height[p] # 0 /\ CacheHas(cache, height[p])
              /\ pc'[p] # pc[p]) =>
              /\ pc'[p] = "ret"
              /\ result'[p] = ResTimestamp(Int64(0, CacheValue(cache, height[p])))
              /\ calls'[p] = << >>
              /\ capCalls'[p] = 0]_vars

\* C9 witness: a lookup has returned from a cache hit.
C9_Witness ==
    \E p \in Procs :
        /\ Returned(p, "GetBlockTimestamp")
        /\ height[p] # 0
        /\ Len(cacheOps[p]) = 1
        /\ cacheOps[p][1].found
        /\ result[p].val.lo = cacheOps[p][1].val
        /\ result[p].val.lo # 0

\* A backend call of p's current call has failed.
SomeCallFailed(p) == \E i \in 1..Len(calls[p]) : ~calls[p][i].ok

\* C10: the step in which a backend call of GetBlockTimestamp fails returns
\* the value 0 (no error) and leaves the cache unchanged; a call in which a
\* backend call failed has put nothing into the cache.
C10_FailedLookup ==
    /\ [][\A p \in Procs :
             (op[p] = "GetBlockTimestamp" /\ Len(calls'[p]) = Len(calls[p]) + 1
                 /\ ~calls'[p][Len(calls'[p])].ok) =>
                 /\ pc'[p] = "ret"
                 /\ result'[p] = ResTimestamp(Int64(0, 0))
                 /\ cache' = cache]_vars
    /\ [](\A p \in Procs :
             (op[p] = "GetBlockTimestamp" /\ SomeCallFailed(p)) =>
                 /\ pc[p] = "ret"
                 /\ result[p] = ResTimestamp(Int64(0, 0))
                 /\ \A i \in 1..Len(cacheOps[p]) :
                       cacheOps[p][i].op = "get" /\ ~cacheOps[p][i].found)

\* C10 witness: a lookup has returned 0 after its header or block fetch
\* failed, while the cache holds an entry.
C10_Witness ==
    \E p \in Procs :
        /\ Returned(p, "GetBlockTimestamp")
        /\ Len(calls[p]) = 2
        /\ calls[p][1].ok
        /\ ~calls[p][2].ok
        /\ cache # << >>

\* The heights of the cache's entries, most recently used first.
CacheKeys(c) == [i \in 1..Len(c) |-> c[i].key]

Min(a, b) == IF a <= b THEN a ELSE b

\* Height h has been in the cache and was evicted.
Evicted(h) == (\E i \in 1..Len(uses) : uses[i] = h) /\ ~CacheHas(cache, h)

Rejected(r) == regs[r].sub = "none"

\* C13: a registration the backend rejected has returned the registration
\* error with no event and no error stream, its scope is cancelled, no
\* subscription exists for it and nothing was delivered.
C13_FailedRegistration ==
    \A r \in Regs :
        Rejected(r) =>
            /\ regs[r].ret = RegReturn(FALSE, FALSE, RegisterErr)
            /\ regs[r].scope = "cancelled"
            /\ regs[r].delivered = << >>
            /\ regs[r].cancels = 0

\* C13 witness: one registration was rejected while another one is live.
C13_Witness ==
    \E r, q \in Regs :
        /\ Rejected(r)
        /\ regs[r].ret.err = RegisterErr
        /\ regs[q].ret.event
        /\ regs[q].scope = "live"

\* C14: every SendMessage call whose message could not be encoded returned
\* the encoding error and passed nothing to SendCustomMessage.
C14_EncodeFailureFirst ==
    \A i \in 1..Len(sendLog) :
        ~Encodable(sendLog[i].msg) =>
            /\ sendLog[i].err = EncodeErr
            /\ sendLog[i].err # "nil"
            /\ sendLog[i].envelopes = << >>

\* C14 witness: a call with a message that cannot be encoded has returned.
C14_Witness ==
    \E i \in 1..Len(sendLog) :
        /\ ~Encodable(sendLog[i].msg)
        /\ sendLog[i].err = EncodeErr

\* The message an envelope carries: its type code and its decoded payload.
Decoded(env) == [type |-> env.MsgType.low, body |-> DecodeFields(env.Data)]

\* C15: every SendMessage call with an encodable message passed exactly one
\* envelope to SendCustomMessage; its peer is the given peer, its type code
\* is the message's declared type, and its payload decodes to the message.
C15_RoundTrip ==
    \A i \in 1..Len(sendLog) :
        Encodable(sendLog[i].msg) =>
            /\ Len(sendLog[i].envelopes) = 1
            /\ VertexPeer(sendLog[i].envelopes[1].Peer) = sendLog[i].peer
            /\ sendLog[i].envelopes[1].MsgType = Uint32(0, sendLog[i].msg.type)
            /\ Decoded(sendLog[i].envelopes[1]) = sendLog[i].msg

\* C15 witness: messages with a body have been passed on for two peers that
\* share a coordinate, one of them in a call the backend then failed.
C15_Witness ==
    \E i, j \in 1..Len(sendLog) :
        /\ sendLog[i].peer # sendLog[j].peer
        /\ sendLog[i].peer.x = sendLog[j].peer.x
        /\ sendLog[i].msg.body # << >>
        /\ Len(sendLog[i].envelopes) = 1
        /\ Len(sendLog[j].envelopes) = 1
        /\ sendLog[j].err \notin { "nil", EncodeErr }

\* C16: every PublishTransaction and EstimateFee call made exactly one
\* backend call, and when that call failed the error returned to the caller
\* is the backend's error inside a context naming the operation.
C16_WrappedDelegation ==
    \A i \in 1..Len(walletLog) :
        /\ Len(walletLog[i].backendCalls) = 1
        /\ walletLog[i].backendErr = "nil" => walletLog[i].err = NilError
        /\ walletLog[i].backendErr # "nil" =>
              /\ walletLog[i].err.cause = walletLog[i].backendErr
              /\ walletLog[i].err.context # ""

\* In its current call p got from getBlockHash the hash of its header.
HashMatched(p) ==
    /\ Len(calls[p]) >= 1
    /\ calls[p][1].ok
    /\ calls[p][1].ret = BlockHash(hdr[p])

\* C17: in a VerifyBlock call with height > 0, getBlockHash of the height is
\* the first backend call and the only one of its kind; the capability check,
\* every access to the flag and the presence fetch come only after it
\* succeeded with the header's hash; and when it failed or returned another
\* hash the call has returned that error with one backend call and without
\* having invoked the capability check.
C17_VerifyOrder ==
    \A p \in Procs :
        (op[p] = "VerifyBlock" /\ height[p] > 0) =>
            /\ \A i \in 1..Len(calls[p]) : (calls[p][i].rpc = "getBlockHash") <=> (i = 1)
            /\ calls[p] # << >> => calls[p][1].arg = height[p]
            /\ (capCalls[p] > 0 \/ FlagAccessor(p) \/ pc[p] = "gbhs_compare"
                   \/ pc[p] = "vb_fetch" \/ Len(calls[p]) > 1) => HashMatched(p)
            /\ (calls[p] # << >> /\ ~HashMatched(p)) =>
                  /\ pc[p] = "ret"
                  /\ Len(calls[p]) = 1
                  /\ capCalls[p] = 0
                  /\ result[p] = IF ~calls[p][1].ok
                                 THEN ResBackendErr("getBlockHash")
                                 ELSE ResMismatch(height[p], calls[p][1].ret, BlockHash(hdr[p]))

\* C17 witness: one verification has returned the error of getBlockHash,
\* another has gone through the capability check to its presence fetch.
C17_Witness ==
    \E p, q \in Procs :
        /\ Returned(p, "VerifyBlock") /\ height[p] > 0
        /\ Len(calls[p]) = 1 /\ ~calls[p][1].ok
        /\ Returned(q, "VerifyBlock") /\ height[q] > 0
        /\ HashMatched(q) /\ capCalls[q] = 1 /\ Len(calls[q]) = 2

\* p has returned from a lookup of a height > 0 that missed the cache and
\* whose backend calls all succeeded.
MissLookup(p) ==
    /\ Returned(p, "GetBlockTimestamp")
    /\ height[p] > 0
    /\ cacheOps[p] # << >>
    /\ ~cacheOps[p][1].found
    /\ \A i \in 1..Len(calls[p]) : calls[p][i].ok

\* p has returned from a lookup that hit the cache.
HitLookup(p) ==
    /\ Returned(p, "GetBlockTimestamp")
    /\ cacheOps[p] # << >>
    /\ cacheOps[p][1].found

\* C18: a lookup that missed and whose backend calls succeeded made two
\* backend calls, getBlockHash of the height and then getBlockHeader (the
\* capability check returned supported) or getBlock (unsupported) of the
\* hash it got; it consulted the capability once, returned the low 32 bits
\* of that block's timestamp and put them into the cache for the height.
\* While the height stays cached its entry holds that value, and a lookup of
\* the height that hit returned the same value with no backend call.
C18_MissThenHit ==
    \A p \in Procs :
        MissLookup(p) =>
            /\ Len(calls[p]) = 2
            /\ calls[p][1] = Rpc("getBlockHash", height[p], TRUE, bestChain[height[p]])
            /\ calls[p][2].rpc = (IF sup[p] THEN "getBlockHeader" ELSE "getBlock")
            /\ calls[p][2].arg = calls[p][1].ret
            /\ capCalls[p] = 1
            /\ result[p] = ResTimestamp(Int64(0, HeaderOf(calls[p][1].ret).ts.lo))
            /\ cacheOps[p] = << CacheOp("get", height[p], FALSE, 0),
                                CacheOp("put", height[p], FALSE, result[p].val.lo) >>
            /\ CacheHas(cache, height[p]) =>
                  CacheValue(cache, height[p]) = result[p].val.lo
            /\ \A q \in Procs :
                  (HitLookup(q) /\ height[q] = height[p]) =>
                      (result[q] = result[p] /\ calls[q] = << >> /\ capCalls[q] = 0)

\* C18 witness: a lookup of a block whose timestamp does not fit 32 bits has
\* missed, and another lookup of the height has hit.
C18_Witness ==
    \E p, q \in Procs :
        /\ MissLookup(p)
        /\ HeaderOf(calls[p][1].ret).ts.hi # 0
        /\ HitLookup(q)
        /\ height[q] = height[p]
        /\ result[q] = result[p]

\* C19: the value a GetBlockTimestamp call with height > 0 returns, when not
\* zero, is the timestamp (in its 32 bits) of the block the best chain holds
\* at the height at the time of the call: when the cache answers, of the
\* block at the height in that step; otherwise of the block getBlockHash
\* named during the call.
C19_TimestampOfBestChain ==
    [][\A p \in Procs :
          (op[p] = "GetBlockTimestamp" /\ height[p] > 0 /\ pc[p] # "ret"
              /\ pc'[p] = "ret" /\ result'[p].val # Int64(0, 0)) =>
              LET block == IF pc[p] = "gbt_entry" THEN bestChain[height[p]] ELSE hash[p]
              IN  result'[p].val = Int64(0, HeaderOf(block).ts.lo)]_vars

====
